---------------------------- MODULE Spec2Model ----------------------------
(***************************************************************************)
(* A model of backend/server.py: the /search handler, the quadtree         *)
(* decomposition of a city's bounding box driven by a count oracle         *)
(* (collect_place_ids_for_city), the thread-pool hydration of the          *)
(* discovered identifiers (hydrate_places) and the geometry helpers        *)
(* (split_bbox, bbox_center_radius_m).                                     *)
(*                                                                         *)
(* Coordinates are degrees in fixed point: an integer counts steps of the  *)
(* finest representable increment.  A division by two rounds to the grid,  *)
(* as the float division of the source rounds to a representable number.   *)
(***************************************************************************)
EXTENDS Integers, Sequences, FiniteSets, TLC

(***************************************************************************)
(* Bounds of the model.                                                    *)
(***************************************************************************)
\* coordinates of the geocoded boxes range over -MaxCoord .. MaxCoord
MaxCoord == 2
\* place identifiers are 1 .. MaxPlace, ordered as the strings they stand for
MaxPlace == 2
\* a listing response carries at most MaxNames entries
MaxNames == 1
\* count answers reach COUNT_LIMIT + MaxOver
MaxOver == 1
\* count calls of one search, where the oracle may keep a search running
MaxCalls == 5
\* identifiers handed to hydrate_places on its own
MaxHydrate == 3
\* the size of the thread pool: MAX_WORKERS is read from the environment, and
\* the model runs a pool smaller than the lists it is handed
MAX_WORKERS == 2
\* the call and split counters stop counting at MaxTally; the loop runs on
MaxTally == 700

(***************************************************************************)
(* Program constants.                                                      *)
(***************************************************************************)
COUNT_LIMIT == 100


STACK_CEILING == 2048

(***************************************************************************)
(* Regions and split_bbox.                                                 *)
(***************************************************************************)
Coords == (-MaxCoord) .. MaxCoord

BBox(t, b, l, r) == [top |-> t, bottom |-> b, left |-> l, right |-> r]

\* (a + b) / 2.0, rounded to the grid
Mid(a, b) == (a + b) \div 2

\* the south-east quadrant starts at the west bound
split_bbox_se_from_west(b) ==
    LET mid_lat == Mid(b.top, b.bottom)
        mid_lng == Mid(b.left, b.right)
    IN  << BBox(b.top, mid_lat, b.left, mid_lng),
           BBox(b.top, mid_lat, mid_lng, b.right),
           BBox(mid_lat, b.bottom, b.left, mid_lng),
           BBox(mid_lat, b.bottom, b.left, b.right) >>

split_bbox(b) ==
    LET mid_lat == Mid(b.top, b.bottom)
        mid_lng == Mid(b.left, b.right)
    IN  << BBox(b.top, mid_lat, b.left, mid_lng),       \* NW
           BBox(b.top, mid_lat, mid_lng, b.right),      \* NE
           BBox(mid_lat, b.bottom, b.left, mid_lng),    \* SW
           BBox(mid_lat, b.bottom, mid_lng, b.right) >> \* SE

\* the boxes the geocoder answers with: [south, north, west, east], south <= north
CityBoxes ==
    { BBox(MaxCoord, -MaxCoord, -MaxCoord, MaxCoord), BBox(1, 0, 0, 1) }

(***************************************************************************)
(* bbox_center_radius_m.  One grid step is 1 / StepsPerDegree of a degree. *)
(* Lengths are carried in centimetres and the radius as its square, so     *)
(* that sqrt, max and >= keep their meaning on integers.  The halved       *)
(* extents (top - bottom) / 2.0 are exact in the source; they are carried  *)
(* doubled.                                                                *)
(***************************************************************************)
StepsPerDegree == 2000

\* m_per_deg_lat = 111_320.0
M_PER_DEG_LAT == 111320

\* max(r_m, 50.0)
MIN_RADIUS_M == 50

\* half a grid step of latitude, in centimetres
HalfStepCm == (M_PER_DEG_LAT * 100) \div (2 * StepsPerDegree)

MinRadiusCm == MIN_RADIUS_M * 100

\* the latitudes, in degrees, around which the geometry is exercised
BaseDegrees == {0, 60}

\* math.cos(math.radians(lat)) in ten-thousandths, lat in grid steps
CosE4(lat) ==
    LET deg == (lat + StepsPerDegree \div 2) \div StepsPerDegree
    IN  CASE deg = 0  -> 10000
          [] deg = 60 -> 5000

Max(a, b) == IF a >= b THEN a ELSE b

\* the east-west extent is not scaled by the cosine of the latitude
bbox_center_radius_unscaled(b) ==
    LET lat_c == Mid(b.top, b.bottom)
        lng_c == Mid(b.left, b.right)
        ns_cm == (b.top - b.bottom) * HalfStepCm
        ew_cm == (b.right - b.left) * HalfStepCm
        r_cm2 == ns_cm * ns_cm + ew_cm * ew_cm
    IN  [lat |-> lat_c, lng |-> lng_c, r2 |-> Max(r_cm2, MinRadiusCm * MinRadiusCm)]

bbox_center_radius_m(b) ==
    LET lat_c == Mid(b.top, b.bottom)
        lng_c == Mid(b.left, b.right)
        lat_delta2 == b.top - b.bottom
        lng_delta2 == b.right - b.left
        ns_cm == lat_delta2 * HalfStepCm
        ew_cm == (lng_delta2 * HalfStepCm * CosE4(lat_c)) \div 10000
        r_cm2 == ns_cm * ns_cm + ew_cm * ew_cm
    IN  [lat |-> lat_c, lng |-> lng_c, r2 |-> Max(r_cm2, MinRadiusCm * MinRadiusCm)]

\* the regions the geometry helpers are exercised on: any four bounds
GeoRegions ==
    { BBox(d * StepsPerDegree + t, d * StepsPerDegree + b, l, r) :
        d \in BaseDegrees, t \in Coords, b \in Coords, l \in Coords, r \in Coords }

(***************************************************************************)
(* Identifiers, listing responses, sorted().                               *)
(***************************************************************************)
PlaceIds == 1 .. MaxPlace

\* an entry of a listing response: a place identifier, or 0 for an entry
\* that carries neither "name" nor "id"
NoName == 0

SeqsUpTo(S, n) == UNION { [1 .. k -> S] : k \in 0 .. n }

ListResponses == SeqsUpTo(PlaceIds \cup {NoName}, MaxNames)

\* aggregate_places_for_bbox: the names of a response, entries without one skipped
NamesOf(resp) == SelectSeq(resp, LAMBDA p : p # NoName)

Range(s) == { s[i] : i \in 1 .. Len(s) }

\* ids = set(names): the names of the latest listing replace the collection
MergeOverwrites(idset, names) == Range(names)

\* for n in names: ids.add(n)
MergeNames(idset, names) == idset \cup Range(names)

RECURSIVE SortedSeq(_)
\* sorted(ids): ascending, one entry per member
SortedSeq(S) ==
    IF S = {} THEN << >>
    ELSE LET m == CHOOSE x \in S : \A y \in S : x <= y
         IN  << m >> \o SortedSeq(S \ {m})

(***************************************************************************)
(* Count answers.                                                          *)
(***************************************************************************)
Counts == {0, 1, COUNT_LIMIT} \cup { COUNT_LIMIT + k : k \in 1 .. MaxOver }

\* no answer yet: the bound a region's count inherits when no ancestor was counted
NoBound == COUNT_LIMIT + MaxOver + 1

(***************************************************************************)
(* The kind of count oracle a search runs against, fixed for the search in *)
(* the variable oracle.  "any": every answer is possible.  "mono": the     *)
(* count of a region is >= the count of each of its quadrants.  "strict":  *)
(* as mono, and a quadrant of a region whose count exceeds COUNT_LIMIT     *)
(* counts strictly less than the region.  "flat": every region counts the  *)
(* same, above COUNT_LIMIT.  "fails": every count call gets an HTTP error  *)
(* response (a rejected key, an exhausted quota) and none answers.         *)
(***************************************************************************)
Admissible(kind, cnt, ub) ==
    CASE kind = "any"    -> TRUE
      [] kind = "mono"   -> cnt <= ub
      [] kind = "strict" -> IF ub > COUNT_LIMIT THEN cnt < ub ELSE cnt <= ub
      [] kind = "flat"   -> cnt > COUNT_LIMIT /\ (ub = NoBound \/ cnt = ub)
      [] kind = "fails"  -> FALSE

\* the kinds of oracle whose count call may get an HTTP error response
MayFail(kind) == kind \in {"any", "fails"}

\* the bound a counted region hands to its quadrants; an unconstrained oracle has none
ChildBound(kind, cnt) == IF kind = "any" THEN NoBound ELSE cnt

\* a search against an oracle that need not shrink is followed for MaxCalls
\* count calls, and one whose worklist only grows for as long as its calls are
\* counted; a search whose worklist stays bounded is followed without limit
InBudget(kind, calls) ==
    \/ kind \in {"strict", "fails"}
    \/ calls < (IF kind = "flat" THEN MaxTally ELSE MaxCalls)

\* a counter of calls or splits, one more
Tally(n) == IF n < MaxTally THEN n + 1 ELSE n

(***************************************************************************)
(* The request: GOOGLE_API_KEY set or not, ?city= as a string of           *)
(* characters, ?count_only=true or not.                                    *)
(***************************************************************************)
Cities == { << >>, << " " >>, << " ", "a" >> }

RECURSIVE LStrip(_)
LStrip(s) == IF s # << >> /\ Head(s) = " " THEN LStrip(Tail(s)) ELSE s

RECURSIVE RStrip(_)
RStrip(s) ==
    IF s # << >> /\ s[Len(s)] = " " THEN RStrip(SubSeq(s, 1, Len(s) - 1)) ELSE s

\* city.strip()
Strip(s) == RStrip(LStrip(s))

Requests == [key : BOOLEAN, city : Cities, count_only : BOOLEAN]

(***************************************************************************)
(* The detail oracle: what place_details does for one identifier.          *)
(***************************************************************************)
\* 404 -> None; another error status -> HTTPError; no answer -> a network
\* error; 200 with an empty JSON body; 200 with a record
DetailOutcomes == {"notfound", "HTTPError", "NetworkError", "empty", "record"}

\* the value place_details returns or the exception it raises
DetailRaises(o) == o \in {"HTTPError", "NetworkError"}

\* "if data is None": only the not-found answer is skipped
IsNone(o) == o = "notfound"

\* "if not data": None and an empty body are both falsy
Falsy(o) == o \in {"notfound", "empty"}

\* the normalized record of the place named n
Normalize(n) == [resourceName |-> n]

VARIABLES
    oracle,     \* the kind of count oracle the search runs against
    req,        \* the request being served
    pc,         \* where the handler is
    exc,        \* the exception that left the handler: [at, kind], or NoExc
    response,   \* what the handler returned
    file,       \* the payload saved under OUTPUT_DIR
    stack,      \* the worklist, its top last
    ubs,        \* for each worklist entry, the count of its nearest counted ancestor
    ids,        \* the identifier set
    place_names,\* the list collect_place_ids_for_city returned
    listed,     \* every identifier a successful listing call has returned
    firstCount, \* the answer to the first count call of the search
    last,       \* the oracle calls of the latest loop iteration
    geo,        \* what the geocoder answered: "none" before the call
    relisted,   \* the identifiers a listing call returned when already collected
    nCount, nList, nSplit,
    task,       \* hydrate_places: the future of each submitted lookup
    yielded,    \* the futures as_completed has handed to the loop
    out,        \* the records appended so far
    nDetail,    \* place_details calls started
    gin,        \* a region handed to the geometry helpers
    gquads,     \* what split_bbox returned for it
    gcircle     \* what bbox_center_radius_m returned for it

reqVars == << oracle, req, response, file >>

ctlVars == << pc, exc >>

collectVars == << stack, ubs, ids, place_names, listed, relisted, firstCount, last,
                  geo, nCount, nList, nSplit >>

hydrateVars == << task, yielded, out, nDetail >>

geomVars == << gin, gquads, gcircle >>

vars == << reqVars, ctlVars, collectVars, hydrateVars, geomVars >>

NoExc == [at |-> "none", kind |-> "none"]

NoCall == [count |-> "none", cnt |-> -1, list |-> "none"]

NoResponse == [status |-> 0, kind |-> "none", total |-> 0]

NoFile == [written |-> FALSE, places |-> << >>]

InitCollect ==
    /\ stack = << >>
    /\ ubs = << >>
    /\ ids = {}
    /\ place_names = << >>
    /\ listed = {}
    /\ firstCount = -1
    /\ last = NoCall
    /\ geo = "none"
    /\ relisted = {}
    /\ nCount = 0
    /\ nList = 0
    /\ nSplit = 0

InitHydrate ==
    /\ task = << >>
    /\ yielded = {}
    /\ out = << >>
    /\ nDetail = 0

NoCircle == [lat |-> 0, lng |-> 0, r2 |-> 0]

InitGeom ==
    /\ gin = BBox(0, 0, 0, 0)
    /\ gquads = << >>
    /\ gcircle = NoCircle

Init ==
    /\ oracle = "any"
    /\ req \in Requests
    /\ pc = "start"
    /\ exc = NoExc
    /\ response = NoResponse
    /\ file = NoFile
    /\ InitCollect
    /\ InitHydrate
    /\ InitGeom

(***************************************************************************)
(* search: the checks at its head.                                         *)
(***************************************************************************)
Respond(status, kind, total) ==
    /\ pc' = "responded"
    /\ response' = [status |-> status, kind |-> kind, total |-> total]

\* if not GOOGLE_API_KEY: 500
SearchNoKey ==
    /\ pc = "start"
    /\ ~req.key
    /\ Respond(500, "error", 0)
    /\ UNCHANGED << oracle, req, file, exc, collectVars, hydrateVars, geomVars >>

\* if not city: 400
SearchNoCity ==
    /\ pc = "start"
    /\ req.key
    /\ Strip(req.city) = << >>
    /\ Respond(400, "error", 0)
    /\ UNCHANGED << oracle, req, file, exc, collectVars, hydrateVars, geomVars >>

\* the handler goes on to collect_place_ids_for_city(city)
Accepted == pc = "start" /\ req.key /\ Strip(req.city) # << >>

(***************************************************************************)
(* get_city_bbox, called at the head of collect_place_ids_for_city.        *)
(***************************************************************************)
Raise(at, kind) ==
    /\ pc' = "raised"
    /\ exc' = [at |-> at, kind |-> kind]

\* the geocoder answers with a bounding box: ids = set(), stack = [bbox]
GeocodeOk ==
    /\ Accepted
    /\ \E b \in CityBoxes :
          /\ stack' = << b >>
          /\ ubs' = << NoBound >>
    /\ pc' = "loop"
    /\ geo' = "ok"
    /\ UNCHANGED << reqVars, exc, ids, place_names, listed, relisted, firstCount, last,
                    nCount, nList, nSplit, hydrateVars, geomVars >>

\* the geocoder answers with an empty array and the search goes on with a
\* default box
GeocodeNotFoundFallsBack ==
    /\ Accepted
    /\ stack' = << BBox(MaxCoord, -MaxCoord, -MaxCoord, MaxCoord) >>
    /\ ubs' = << NoBound >>
    /\ pc' = "loop"
    /\ geo' = "notfound"
    /\ UNCHANGED << reqVars, exc, ids, place_names, listed, relisted, firstCount, last,
                    nCount, nList, nSplit, hydrateVars, geomVars >>

\* the geocoder answers with an empty array: ValueError("City not found"), re-raised
GeocodeNotFound ==
    /\ Accepted
    /\ Raise("geocode", "ValueError")
    /\ geo' = "notfound"
    /\ UNCHANGED << reqVars, stack, ubs, ids, place_names, listed, relisted, firstCount, last,
                    nCount, nList, nSplit, hydrateVars, geomVars >>

\* the geocoder request fails (raise_for_status, a timeout): re-raised
GeocodeFails ==
    /\ Accepted
    /\ \E k \in {"HTTPError", "NetworkError"} :
          /\ Raise("geocode", k)
          /\ geo' = k
    /\ UNCHANGED << reqVars, stack, ubs, ids, place_names, listed, relisted, firstCount, last,
                    nCount, nList, nSplit, hydrateVars, geomVars >>

(***************************************************************************)
(* One iteration of the while loop of collect_place_ids_for_city: the pop, *)
(* the count call and, for 1 <= cnt <= COUNT_LIMIT, the listing call.      *)
(***************************************************************************)
Front(s) == SubSeq(s, 1, Len(s) - 1)

Top(s) == s[Len(s)]

Popping == pc = "loop" /\ stack # << >> /\ InBudget(oracle, nCount)

\* stack.extend(split_bbox(box)) on a worklist that was read, not popped
PushWithoutPop(box, ub) ==
    /\ stack' = stack \o split_bbox(box)
    /\ ubs' = ubs \o << ub, ub, ub, ub >>
    /\ nSplit' = Tally(nSplit)

\* stack.extend(split_bbox(box)), after the pop
PushChildren(box, ub) ==
    /\ stack' = Front(stack) \o split_bbox(box)
    /\ ubs' = Front(ubs) \o << ub, ub, ub, ub >>
    /\ nSplit' = Tally(nSplit)

\* the box is read and left on the worklist
DropWithoutPop ==
    /\ stack' = stack
    /\ ubs' = ubs
    /\ nSplit' = nSplit

\* the box is popped and nothing is pushed
DropBox ==
    /\ stack' = Front(stack)
    /\ ubs' = Front(ubs)
    /\ nSplit' = nSplit

\* the count call answered cnt
Counted(cnt) ==
    /\ nCount' = Tally(nCount)
    /\ firstCount' = IF nCount = 0 THEN cnt ELSE firstCount

\* len(stack) < 2048, read after the pop
BelowCeiling(s) == Len(s) < STACK_CEILING

\* aggregate_count_for_bbox raises requests.HTTPError: split below the ceiling, else drop
CountHTTPError ==
    /\ Popping
    /\ MayFail(oracle)
    /\ IF BelowCeiling(Front(stack))
          THEN PushChildren(Top(stack), Top(ubs))
          ELSE DropBox
    /\ last' = [count |-> "HTTPError", cnt |-> -1, list |-> "none"]
    /\ nCount' = Tally(nCount)
    /\ UNCHANGED << reqVars, ctlVars, ids, place_names, listed, relisted, firstCount,
                    geo, nList, hydrateVars, geomVars >>

\* aggregate_count_for_bbox raises another exception (a timeout, a connection
\* error): no except clause matches, it leaves collect_place_ids_for_city and search
CountRaises ==
    /\ Popping
    /\ Raise("count", "NetworkError")
    /\ DropBox
    /\ last' = [count |-> "NetworkError", cnt |-> -1, list |-> "none"]
    /\ nCount' = Tally(nCount)
    /\ UNCHANGED << reqVars, ids, place_names, listed, relisted, firstCount,
                    geo, nList, hydrateVars, geomVars >>

\* cnt == 0: continue
CountZero ==
    /\ Popping
    /\ Admissible(oracle, 0, Top(ubs))
    /\ DropBox
    /\ Counted(0)
    /\ last' = [count |-> "ok", cnt |-> 0, list |-> "none"]
    /\ UNCHANGED << reqVars, ctlVars, ids, place_names, listed, relisted, geo, nList,
                    hydrateVars, geomVars >>

\* cnt > COUNT_LIMIT: the listing oracle is asked all the same, its answer is
\* dropped and the region is split
CountOverCapLists ==
    /\ Popping
    /\ \E cnt \in Counts :
          /\ cnt > COUNT_LIMIT
          /\ Admissible(oracle, cnt, Top(ubs))
          /\ PushChildren(Top(stack), ChildBound(oracle, cnt))
          /\ Counted(cnt)
          /\ last' = [count |-> "ok", cnt |-> cnt, list |-> "ok"]
    /\ nList' = nList + 1
    /\ UNCHANGED << reqVars, ctlVars, ids, place_names, listed, relisted, geo,
                    hydrateVars, geomVars >>

\* cnt > COUNT_LIMIT: stack.extend(split_bbox(box))
CountOverCap ==
    /\ Popping
    /\ \E cnt \in Counts :
          /\ cnt > COUNT_LIMIT
          /\ Admissible(oracle, cnt, Top(ubs))
          /\ PushChildren(Top(stack), ChildBound(oracle, cnt))
          /\ Counted(cnt)
          /\ last' = [count |-> "ok", cnt |-> cnt, list |-> "none"]
    /\ UNCHANGED << reqVars, ctlVars, ids, place_names, listed, relisted, geo, nList,
                    hydrateVars, geomVars >>

\* 1 <= cnt <= COUNT_LIMIT and aggregate_places_for_bbox answers: the names are merged
ListOk ==
    /\ Popping
    /\ \E cnt \in Counts, resp \in ListResponses :
          /\ cnt # 0
          /\ cnt <= COUNT_LIMIT
          /\ Admissible(oracle, cnt, Top(ubs))
          /\ ids' = MergeNames(ids, NamesOf(resp))
          /\ listed' = listed \cup Range(NamesOf(resp))
          /\ relisted' = relisted \cup (Range(NamesOf(resp)) \cap ids)
          /\ Counted(cnt)
          /\ last' = [count |-> "ok", cnt |-> cnt, list |-> "ok"]
    /\ DropBox
    /\ nList' = nList + 1
    /\ UNCHANGED << reqVars, ctlVars, place_names, geo, hydrateVars, geomVars >>

\* 1 <= cnt <= COUNT_LIMIT and aggregate_places_for_bbox raises requests.HTTPError:
\* stack.extend(split_bbox(box)), whatever the length of the worklist
ListHTTPError ==
    /\ Popping
    /\ \E cnt \in Counts :
          /\ cnt # 0
          /\ cnt <= COUNT_LIMIT
          /\ Admissible(oracle, cnt, Top(ubs))
          /\ PushChildren(Top(stack), ChildBound(oracle, cnt))
          /\ Counted(cnt)
          /\ last' = [count |-> "ok", cnt |-> cnt, list |-> "HTTPError"]
    /\ nList' = nList + 1
    /\ UNCHANGED << reqVars, ctlVars, ids, place_names, listed, relisted, geo,
                    hydrateVars, geomVars >>

\* 1 <= cnt <= COUNT_LIMIT and aggregate_places_for_bbox raises another exception:
\* it leaves collect_place_ids_for_city and search
ListRaises ==
    /\ Popping
    /\ \E cnt \in Counts :
          /\ cnt # 0
          /\ cnt <= COUNT_LIMIT
          /\ Admissible(oracle, cnt, Top(ubs))
          /\ Counted(cnt)
          /\ last' = [count |-> "ok", cnt |-> cnt, list |-> "NetworkError"]
    /\ Raise("listing", "NetworkError")
    /\ DropBox
    /\ nList' = nList + 1
    /\ UNCHANGED << reqVars, ids, place_names, listed, relisted, geo,
                    hydrateVars, geomVars >>

\* the worklist is empty: return sorted(ids)
CollectReturn ==
    /\ pc = "loop"
    /\ stack = << >>
    /\ pc' = "collected"
    /\ place_names' = SortedSeq(ids)
    /\ UNCHANGED << reqVars, exc, stack, ubs, ids, listed, relisted, firstCount, last,
                    geo, nCount, nList, nSplit, hydrateVars, geomVars >>

(***************************************************************************)
(* search, after collect_place_ids_for_city has returned.                  *)
(***************************************************************************)
\* if count_only: the number of identifiers is the answer
SearchCountOnly ==
    /\ pc = "collected"
    /\ req.count_only
    /\ Respond(200, "count", Len(place_names))
    /\ UNCHANGED << oracle, req, file, exc, collectVars, hydrateVars, geomVars >>

(***************************************************************************)
(* hydrate_places: every lookup is submitted to a pool of MAX_WORKERS      *)
(* threads; the calling thread takes the futures as they complete.         *)
(***************************************************************************)
Queued == [st |-> "queued", res |-> "none"]

Tasks == DOMAIN task

Running == { i \in Tasks : task[i].st = "running" }

Done == { i \in Tasks : task[i].st = "done" }

\* the lookups are submitted whatever count_only says
HydrateSubmitAlways ==
    /\ pc = "collected"
    /\ pc' = "hydrate"
    /\ task' = [i \in 1 .. Len(place_names) |-> Queued]
    /\ yielded' = {}
    /\ out' = << >>
    /\ UNCHANGED << reqVars, exc, collectVars, nDetail, geomVars >>

\* futs = {ex.submit(place_details, n): n for n in place_names}
HydrateSubmit ==
    /\ pc = "collected"
    /\ ~req.count_only
    /\ pc' = "hydrate"
    /\ task' = [i \in 1 .. Len(place_names) |-> Queued]
    /\ yielded' = {}
    /\ out' = << >>
    /\ UNCHANGED << reqVars, exc, collectVars, nDetail, geomVars >>

\* the pool runs the lookups as long as the executor lives: inside the with
\* block and while its exit waits for them
PoolAlive == pc \in {"hydrate", "unwind"}

\* a thread is started for the oldest queued lookup, however many are running
LookupStartUnbounded ==
    /\ PoolAlive
    /\ \E i \in Tasks :
          /\ task[i].st = "queued"
          /\ \A j \in Tasks : j < i => task[j].st # "queued"
          /\ task' = [task EXCEPT ![i].st = "running"]
    /\ nDetail' = nDetail + 1
    /\ UNCHANGED << reqVars, ctlVars, collectVars, yielded, out, geomVars >>

\* an idle worker takes the oldest queued lookup
LookupStart ==
    /\ PoolAlive
    /\ Cardinality(Running) < MAX_WORKERS
    /\ \E i \in Tasks :
          /\ task[i].st = "queued"
          /\ \A j \in Tasks : j < i => task[j].st # "queued"
          /\ task' = [task EXCEPT ![i].st = "running"]
    /\ nDetail' = nDetail + 1
    /\ UNCHANGED << reqVars, ctlVars, collectVars, yielded, out, geomVars >>

\* place_details returns or raises in its worker thread
LookupFinish ==
    /\ PoolAlive
    /\ \E i \in Running, o \in DetailOutcomes :
          task' = [task EXCEPT ![i] = [st |-> "done", res |-> o]]
    /\ UNCHANGED << reqVars, ctlVars, collectVars, yielded, out, nDetail, geomVars >>

\* fut.result() raises and the records fetched so far are saved on the way out
YieldRaisesSavesPartial ==
    /\ pc = "hydrate"
    /\ \E i \in Done \ yielded :
          /\ DetailRaises(task[i].res)
          /\ yielded' = yielded \cup {i}
          /\ exc' = [at |-> "detail", kind |-> task[i].res]
    /\ pc' = "unwind"
    /\ file' = [written |-> TRUE, places |-> out]
    /\ UNCHANGED << oracle, req, response, collectVars, task, out, nDetail, geomVars >>

\* as_completed hands over a finished future and fut.result() raises what
\* place_details raised: the with block is left, its exit waits for the pool
YieldRaises ==
    /\ pc = "hydrate"
    /\ \E i \in Done \ yielded :
          /\ DetailRaises(task[i].res)
          /\ yielded' = yielded \cup {i}
          /\ exc' = [at |-> "detail", kind |-> task[i].res]
    /\ pc' = "unwind"
    /\ UNCHANGED << reqVars, collectVars, task, out, nDetail, geomVars >>

\* if not data: continue
YieldSkips ==
    /\ pc = "hydrate"
    /\ \E i \in Done \ yielded :
          /\ Falsy(task[i].res)
          /\ yielded' = yielded \cup {i}
    /\ UNCHANGED << reqVars, ctlVars, collectVars, task, out, nDetail, geomVars >>

\* out.append({...})
YieldAppends ==
    /\ pc = "hydrate"
    /\ \E i \in Done \ yielded :
          /\ ~DetailRaises(task[i].res)
          /\ ~Falsy(task[i].res)
          /\ yielded' = yielded \cup {i}
          /\ out' = Append(out, Normalize(place_names[i]))
    /\ UNCHANGED << reqVars, ctlVars, collectVars, task, nDetail, geomVars >>

\* every future was handed over: the with block ends and hydrate_places returns out
HydrateReturn ==
    /\ pc = "hydrate"
    /\ yielded = Tasks
    /\ pc' = "hydrated"
    /\ UNCHANGED << reqVars, exc, collectVars, hydrateVars, geomVars >>

\* the exception leaves hydrate_places at once, the pool still running
HydrateRaisesAtOnce ==
    /\ pc = "unwind"
    /\ pc' = "raised"
    /\ UNCHANGED << reqVars, exc, collectVars, hydrateVars, geomVars >>

\* the exit of the with block has waited for every lookup: the exception
\* leaves hydrate_places and search
HydrateRaises ==
    /\ pc = "unwind"
    /\ Done = Tasks
    /\ pc' = "raised"
    /\ UNCHANGED << reqVars, exc, collectVars, hydrateVars, geomVars >>

\* the payload is written to OUTPUT_DIR and returned
SearchSave ==
    /\ pc = "hydrated"
    /\ file' = [written |-> TRUE, places |-> out]
    /\ Respond(200, "data", Len(out))
    /\ UNCHANGED << oracle, req, exc, collectVars, hydrateVars, geomVars >>

(***************************************************************************)
(* The geometry helpers applied to one region.                             *)
(***************************************************************************)
ApplySplit ==
    /\ gquads = << >>
    /\ gquads' = split_bbox(gin)
    /\ UNCHANGED << reqVars, ctlVars, collectVars, hydrateVars, gin, gcircle >>

ApplyCircle ==
    /\ gcircle = NoCircle
    /\ gcircle' = bbox_center_radius_m(gin)
    /\ UNCHANGED << reqVars, ctlVars, collectVars, hydrateVars, gin, gquads >>

Collect ==
    \/ CountHTTPError
    \/ CountRaises
    \/ CountZero
    \/ CountOverCap
    \/ ListOk
    \/ ListHTTPError
    \/ ListRaises

Hydrate ==
    \/ HydrateSubmit
    \/ LookupStart
    \/ LookupFinish
    \/ YieldRaises
    \/ YieldSkips
    \/ YieldAppends
    \/ HydrateReturn
    \/ HydrateRaises

Next ==
    \/ SearchNoKey
    \/ SearchNoCity
    \/ GeocodeOk
    \/ GeocodeNotFound
    \/ GeocodeFails
    \/ Collect
    \/ CollectReturn
    \/ SearchCountOnly
    \/ Hydrate
    \/ SearchSave

Spec == Init /\ [][Next]_vars

(***************************************************************************)
(* A search whose geocoder, count calls and listing calls never fail,      *)
(* against a count oracle that is monotonic or strictly shrinking.  The    *)
(* loop runs in one thread and keeps running: weak fairness of its steps.  *)
(***************************************************************************)
InitMonotonic ==
    /\ oracle \in {"mono", "strict"}
    /\ req \in Requests
    /\ req.key
    /\ Strip(req.city) # << >>
    /\ pc = "start"
    /\ exc = NoExc
    /\ response = NoResponse
    /\ file = NoFile
    /\ InitCollect
    /\ InitHydrate
    /\ InitGeom

NextMonotonic ==
    \/ GeocodeOk
    \/ CountZero
    \/ CountOverCap
    \/ ListOk
    \/ CollectReturn

SpecMonotonic == InitMonotonic /\ [][NextMonotonic]_vars /\ WF_vars(NextMonotonic)

(***************************************************************************)
(* A search whose geocoder answers and whose calls raise no network error, *)
(* against a count oracle that shrinks strictly, one that answers the same *)
(* count above COUNT_LIMIT for every region, and one whose every call gets *)
(* an HTTP error response.  The loop runs in one thread and keeps running. *)
(***************************************************************************)
InitBackstop ==
    /\ oracle \in {"strict", "flat", "fails"}
    /\ req \in Requests
    /\ req.key
    /\ Strip(req.city) # << >>
    /\ pc = "start"
    /\ exc = NoExc
    /\ response = NoResponse
    /\ file = NoFile
    /\ InitCollect
    /\ InitHydrate
    /\ InitGeom

NextBackstop ==
    \/ GeocodeOk
    \/ CountHTTPError
    \/ CountZero
    \/ CountOverCap
    \/ ListOk
    \/ CollectReturn

SpecBackstop == InitBackstop /\ [][NextBackstop]_vars /\ WF_vars(NextBackstop)

(***************************************************************************)
(* hydrate_places on its own: called with any sorted list of distinct      *)
(* identifiers, as returned by a search whose one listing call found them. *)
(***************************************************************************)
HydrateInputs == { SortedSeq(S) : S \in SUBSET (1 .. MaxHydrate) }

InitHydrateCall ==
    /\ oracle = "any"
    /\ req = [key |-> TRUE, city |-> << " ", "a" >>, count_only |-> FALSE]
    /\ pc = "collected"
    /\ exc = NoExc
    /\ response = NoResponse
    /\ file = NoFile
    /\ stack = << >>
    /\ ubs = << >>
    /\ place_names \in HydrateInputs
    /\ ids = Range(place_names)
    /\ listed = ids
    /\ firstCount = COUNT_LIMIT
    /\ last = [count |-> "ok", cnt |-> COUNT_LIMIT, list |-> "ok"]
    /\ geo = "ok"
    /\ relisted = {}
    /\ nCount = 1
    /\ nList = 1
    /\ nSplit = 0
    /\ InitHydrate
    /\ InitGeom

SpecHydrate == InitHydrateCall /\ [][Hydrate]_vars

(***************************************************************************)
(* The geometry helpers on every region of the grid.                       *)
(***************************************************************************)
InitGeometry ==
    /\ oracle = "any"
    /\ req = [key |-> TRUE, city |-> << " ", "a" >>, count_only |-> FALSE]
    /\ pc = "start"
    /\ exc = NoExc
    /\ response = NoResponse
    /\ file = NoFile
    /\ InitCollect
    /\ InitHydrate
    /\ gin \in GeoRegions
    /\ gquads = << >>
    /\ gcircle = NoCircle

NextGeometry == ApplySplit \/ ApplyCircle

SpecGeometry == InitGeometry /\ [][NextGeometry]_vars

(***************************************************************************)
(* C1.  Termination of the decomposition against a well-behaved oracle.    *)
(***************************************************************************)
RECURSIVE Pow4(_)
Pow4(n) == IF n = 0 THEN 1 ELSE 4 * Pow4(n - 1)

\* the splits of a quadtree whose counts start at c and lose at least one per
\* level while above COUNT_LIMIT: 1 + 4 + ... + 4^(c - COUNT_LIMIT - 1)
SplitBound(c) ==
    IF c > COUNT_LIMIT THEN (Pow4(c - COUNT_LIMIT) - 1) \div 3 ELSE 0

C4_TransientNeverRaised == exc.at \notin {"count", "listing"}

(***************************************************************************)
(* C5.  The identifier collection.                                         *)
(***************************************************************************)
\* collect_place_ids_for_city has returned its list
Returned ==
    \/ pc \in {"collected", "hydrate", "unwind", "hydrated"}
    \/ pc = "responded" /\ response.status = 200
    \/ pc = "raised" /\ exc.at = "detail"

StrictlyAscending(s) == \A i \in 1 .. Len(s) - 1 : s[i] < s[i + 1]

\* C5: the collection holds exactly the identifiers the successful listing
\* calls have returned, an identifier returned again counting once, and the
\* returned list is that set in ascending order without a repeat.
C5_CollectionIsUnion ==
    /\ ids = listed
    /\ Returned =>
          /\ StrictlyAscending(place_names)
          /\ Range(place_names) = listed
          /\ Len(place_names) = Cardinality(listed)

\* a returned list of two, one of them returned by two listing calls
C5_Witness ==
    /\ pc = "collected"
    /\ relisted # {}
    /\ Len(place_names) = 2

(***************************************************************************)
(* C7.  A count above COUNT_LIMIT.                                         *)
(***************************************************************************)
\* the step is a loop iteration whose count call answered
CountAnswered == pc = "loop" /\ nCount' = nCount + 1 /\ last'.count = "ok"

\* C7: an iteration whose count call answers above COUNT_LIMIT makes that
\* one count call and no listing call, leaves the identifier set alone and
\* replaces the popped region by its four quadrants, in the order of
\* split_bbox; each pending region is then counted by the iteration that
\* pops it, one count call per iteration.
C7_OverCapSplitsOnce ==
    /\ [][(CountAnswered /\ last'.cnt > COUNT_LIMIT) =>
            /\ nList' = nList
            /\ ids' = ids
            /\ stack' = Front(stack) \o split_bbox(Top(stack))
            /\ Len(stack') = Len(stack) + 3]_vars
    /\ [][nCount' # nCount =>
            /\ nCount' = nCount + 1
            /\ stack # << >>
            /\ SubSeq(stack', 1, Len(stack) - 1) = Front(stack)]_vars

\* the first count call answered above COUNT_LIMIT: four quadrants pending
C7_Witness ==
    /\ pc = "loop"
    /\ nCount = 1
    /\ last.count = "ok"
    /\ last.cnt = COUNT_LIMIT + MaxOver
    /\ Len(stack) = 4

(***************************************************************************)
(* C8.  A count of zero.                                                   *)
(***************************************************************************)
\* C8: an iteration whose count call answers 0 makes no listing call,
\* pushes nothing and leaves the identifier set alone; a search whose
\* starting region counts 0 makes one count call and no listing call and
\* returns the empty list.
C8_ZeroDropsRegion ==
    /\ [][(CountAnswered /\ last'.cnt = 0) =>
            /\ nList' = nList
            /\ ids' = ids
            /\ nSplit' = nSplit
            /\ stack' = Front(stack)]_vars
    /\ [](firstCount = 0 =>
            /\ nCount = 1
            /\ nList = 0
            /\ stack = << >>
            /\ ids = {}
            /\ place_names = << >>
            /\ nDetail = 0)

\* a search whose starting region counted 0 has returned
C8_Witness ==
    /\ pc = "collected"
    /\ firstCount = 0
    /\ last.cnt = 0

(***************************************************************************)
(* C9.  An unknown place name.                                             *)
(***************************************************************************)
\* C9: when the geocoder finds no match the search ends with the not-found
\* error and has made no count, listing or detail call; nothing is saved
\* or returned.
C9_NotFoundAborts ==
    geo = "notfound" =>
        /\ pc = "raised"
        /\ exc = [at |-> "geocode", kind |-> "ValueError"]
        /\ nCount = 0
        /\ nList = 0
        /\ nDetail = 0
        /\ stack = << >>
        /\ response = NoResponse
        /\ file = NoFile

\* the geocoder was asked and found no match
C9_Witness == geo = "notfound" /\ pc = "raised"

(***************************************************************************)
(* C2, C3.  hydrate_places.                                                *)
(***************************************************************************)
\* the records of out that stand for identifier n
RecordsOf(n) == { k \in 1 .. Len(out) : out[k] = Normalize(n) }

\* C2 as stated: a lookup that fails otherwise than by not-found is dropped
\* like a not-found one: hydrate_places never raises, and when it returns
\* every record that was fetched is in the list and no failed lookup is.
\* Refuted: fut.result() raises what place_details raised, outside any try.
C2_FailedLookupIsDropped ==
    /\ exc.at # "detail"
    /\ pc = "hydrated" =>
          \A i \in Tasks :
             /\ task[i].res = "record" => RecordsOf(place_names[i]) # {}
             /\ DetailRaises(task[i].res) => RecordsOf(place_names[i]) = {}

\* C3 as stated: when hydrate_places returns, the list is no longer than the
\* input, a not-found lookup contributes no record and a lookup that
\* succeeded (HTTP 200, whatever the body) contributes exactly one.
\* Refuted: a 200 with an empty body is falsy and is skipped as well.
C3_EverySuccessOnce ==
    pc = "hydrated" =>
       /\ Len(out) <= Len(place_names)
       /\ \A i \in Tasks :
             /\ task[i].res = "notfound" => RecordsOf(place_names[i]) = {}
             /\ task[i].res \in {"empty", "record"} =>
                   Cardinality(RecordsOf(place_names[i])) = 1

\* C3 amended: when hydrate_places returns, under every interleaving of the
\* workers, the list is no longer than the input, a lookup that returned
\* not-found or an empty body contributes no record, and a lookup that
\* returned a non-empty record contributes exactly one.
C3_EveryRecordOnce ==
    pc = "hydrated" =>
       /\ Len(out) <= Len(place_names)
       /\ \A i \in Tasks :
             /\ task[i].res \in {"notfound", "empty"} => RecordsOf(place_names[i]) = {}
             /\ task[i].res = "record" =>
                   Cardinality(RecordsOf(place_names[i])) = 1

\* hydrate_places returned for three identifiers: one with a record, one not
\* found, one with an empty body
C3_Witness ==
    /\ pc = "hydrated"
    /\ Len(place_names) = 3
    /\ task[1].res = "record"
    /\ task[2].res = "notfound"
    /\ task[3].res = "empty"
    /\ Len(out) = 1

(***************************************************************************)
(* C6.  split_bbox.                                                        *)
(***************************************************************************)
WellFormed(b) == b.top >= b.bottom /\ b.right >= b.left

\* the points of the closed region b, sampled at every grid line and between
\* every two neighbouring grid lines (coordinates doubled)
Points(b) ==
    { << y, x >> : y \in (2 * b.bottom) .. (2 * b.top),
                   x \in (2 * b.left) .. (2 * b.right) }

\* the same sample of the interior of b
Interior(b) ==
    { << y, x >> : y \in (2 * b.bottom + 1) .. (2 * b.top - 1),
                   x \in (2 * b.left + 1) .. (2 * b.right - 1) }

\* C6: for a region with top >= bottom and right >= left, split_bbox returns
\* four regions that meet at one latitude and one longitude inside the
\* parent, are each well formed, cover exactly the parent and have pairwise
\* disjoint interiors.
C6_ExactPartition ==
    (gquads # << >> /\ WellFormed(gin)) =>
       /\ Len(gquads) = 4
       /\ \A i \in 1 .. 4 : WellFormed(gquads[i])
       /\ UNION { Points(gquads[i]) : i \in 1 .. 4 } = Points(gin)
       /\ \A i, j \in 1 .. 4 :
             i # j => Interior(gquads[i]) \cap Interior(gquads[j]) = {}
       /\ \E y \in gin.bottom .. gin.top, x \in gin.left .. gin.right :
             /\ gquads[1].bottom = y /\ gquads[2].bottom = y
             /\ gquads[3].top = y /\ gquads[4].top = y
             /\ gquads[1].right = x /\ gquads[3].right = x
             /\ gquads[2].left = x /\ gquads[4].left = x

\* split_bbox was applied to a region of full extent, away from the equator
C6_Witness ==
    /\ gquads # << >>
    /\ gin.top - gin.bottom = 2 * MaxCoord
    /\ gin.right - gin.left = 2 * MaxCoord
    /\ gin.bottom > 0

(***************************************************************************)
(* C10.  bbox_center_radius_m.                                             *)
(***************************************************************************)
\* the square of the half-diagonal of b in centimetres, the east-west extent
\* scaled by the cosine of the central latitude
HalfDiagonalCm2(b) ==
    LET ns == (b.top - b.bottom) * HalfStepCm
        ew == ((b.right - b.left) * HalfStepCm * CosE4(Mid(b.top, b.bottom))) \div 10000
    IN  ns * ns + ew * ew

\* C10: for every region the center is the midpoint of the bounds (to the
\* grid) and the radius is the larger of the half-diagonal and 50 m.
C10_RadiusCovers ==
    gcircle # NoCircle =>
       /\ 2 * gcircle.lat \in { gin.top + gin.bottom - 1, gin.top + gin.bottom }
       /\ 2 * gcircle.lng \in { gin.left + gin.right - 1, gin.left + gin.right }
       /\ gcircle.r2 >= HalfDiagonalCm2(gin)
       /\ gcircle.r2 >= (MIN_RADIUS_M * 100) * (MIN_RADIUS_M * 100)
       /\ gcircle.r2 \in { HalfDiagonalCm2(gin), (MIN_RADIUS_M * 100) * (MIN_RADIUS_M * 100) }

\* a region at 60 degrees north, wider than tall, whose half-diagonal
\* exceeds the floor
C10_Witness ==
    /\ gcircle # NoCircle
    /\ gin.bottom >= 60 * StepsPerDegree
    /\ gin.right - gin.left > gin.top - gin.bottom
    /\ gin.top > gin.bottom
    /\ gcircle.r2 > (MIN_RADIUS_M * 100) * (MIN_RADIUS_M * 100)

(***************************************************************************)
(* C11, C14.  A failed count call, a failed listing call.                  *)
(***************************************************************************)
\* the step is a loop iteration whose count call failed
CountFailed == pc = "loop" /\ nCount' # nCount /\ last'.count # "ok"

\* the step is a loop iteration whose listing call failed
ListFailed == pc = "loop" /\ nList' # nList /\ last'.list # "ok"

\* C11 as stated: an iteration whose count call fails, by an HTTP error
\* response or a network failure, makes no listing call, leaves the
\* identifier set alone and goes on with the loop, the four quadrants of
\* the region pushed when fewer than 2048 regions are pending and the
\* region dropped otherwise.  Refuted: a timeout or a connection error of
\* the count call is not caught and ends the search (see C4).
C11_CountFailureSplits ==
    [][CountFailed =>
          /\ pc' = "loop"
          /\ nList' = nList
          /\ ids' = ids
          /\ stack' = IF Len(Front(stack)) < STACK_CEILING
                         THEN Front(stack) \o split_bbox(Top(stack))
                         ELSE Front(stack)]_vars

\* C14 as stated: an iteration whose listing call fails pushes the four
\* quadrants of the region whatever the length of the worklist, merges no
\* identifier, goes on with the loop and leaves the region off the
\* worklist.  Refuted: a timeout or a connection error of the listing
\* call is not caught and ends the search (see C4).
C14_ListingFailureSplits ==
    [][ListFailed =>
          /\ pc' = "loop"
          /\ ids' = ids
          /\ nCount' = nCount + 1
          /\ nList' = nList + 1
          /\ nSplit' = nSplit + 1
          /\ stack' = Front(stack) \o split_bbox(Top(stack))]_vars

(***************************************************************************)
(* C15.  When the listing oracle is called.                                *)
(***************************************************************************)
\* C15: an iteration calls the listing oracle exactly when its count call
\* answered a count of 1 .. COUNT_LIMIT, never after a count above
\* COUNT_LIMIT, a count of 0 or a failed count call; when the listing
\* call answers, every identifier returned so far is in the identifier
\* set, none was removed, and nothing is pushed; the identifier set
\* changes in no other step.
C15_ListingOnlyWithinCap ==
    /\ [][nList' # nList <=>
             /\ pc = "loop"
             /\ nCount' = nCount + 1
             /\ last'.count = "ok"
             /\ last'.cnt >= 1
             /\ last'.cnt <= COUNT_LIMIT]_vars
    /\ [][(nList' # nList /\ last'.list = "ok") =>
             /\ nList' = nList + 1
             /\ ids \subseteq ids'
             /\ listed' \subseteq ids'
             /\ nSplit' = nSplit
             /\ stack' = Front(stack)]_vars
    /\ [][ids' # ids => (nList' # nList /\ last'.list = "ok")]_vars

\* a search that split once on a count above COUNT_LIMIT, listed one
\* quadrant and found the other three empty
C15_Witness ==
    /\ pc = "collected"
    /\ firstCount > COUNT_LIMIT
    /\ nCount = 5
    /\ nSplit = 1
    /\ nList = 1
    /\ ids # {}

(***************************************************************************)
(* C16.  The life of a worklist entry.                                     *)
(***************************************************************************)
\* C16: every entry pushed on the worklist (the starting region and four
\* per split) is either pending or was popped by one iteration, which made
\* one count call and at most one listing call for it and then dropped
\* it, listed it or replaced it by its four quadrants; the entries below
\* it are left as they were and the worklist changes in no other way.
C16_ConsumedOnce ==
    /\ [](geo = "ok" =>
             /\ Len(stack) + nCount = 1 + 4 * nSplit
             /\ nList <= nCount)
    /\ [][nCount' # nCount =>
             /\ stack # << >>
             /\ nCount' = nCount + 1
             /\ nList' \in {nList, nList + 1}
             /\ \/ stack' = Front(stack)
                \/ stack' = Front(stack) \o split_bbox(Top(stack))]_vars
    /\ [][stack' # stack => (nCount' = nCount + 1 \/ geo = "none")]_vars

\* a search whose first listing call failed and whose four quadrants were
\* each counted and listed once
C16_Witness ==
    /\ pc = "collected"
    /\ firstCount <= COUNT_LIMIT
    /\ nCount = 5
    /\ nSplit = 1
    /\ nList = 5

(***************************************************************************)
(* C12, C13.  The size ceiling of the worklist.                            *)
(***************************************************************************)
\* C12 as stated: whatever the oracles answer, the worklist never holds more
\* than the ceiling and the three net regions of one split.  Refuted: only
\* the split after a failed count call reads the ceiling; a count above
\* COUNT_LIMIT and a failed listing call split whatever the length.
C12_CeilingBoundsWorklist == Len(stack) <= STACK_CEILING + 3

\* C13 as stated: when every count call keeps failing, the ceiling makes the
\* worklist empty and collect_place_ids_for_city return.  Refuted: at the
\* ceiling three regions are dropped, the fourth is below it and is split
\* again, and the worklist goes round 2048 .. 2051 for ever.
C13_CeilingTerminates == oracle = "fails" => <>(pc = "collected")

(***************************************************************************)
(* C17, C18.  The thread pool of hydrate_places.                           *)
(***************************************************************************)
\* hydrate_places has returned or raised
HydrateLeft == pc \in {"hydrated", "raised"}

\* C17: hydrate_places returns or raises only when every submitted lookup
\* has resolved, none left queued or running; a lookup is never cancelled:
\* it goes from queued to running to done and keeps its result, also after
\* another lookup has failed, and every one of them was started.
C17_FullJoin ==
    /\ [](HydrateLeft =>
             /\ Len(task) = Len(place_names)
             /\ \A i \in Tasks : task[i].st = "done"
             /\ nDetail = Len(place_names))
    /\ [][\A i \in Tasks :
             /\ i \in DOMAIN task'
             /\ task[i].st = "queued" => task'[i].st \in {"queued", "running"}
             /\ task[i].st = "running" => task'[i].st \in {"running", "done"}
             /\ task[i].st = "done" => task'[i] = task[i]]_vars

\* hydrate_places raised the failure of the first lookup; the other two,
\* never handed to the loop, ran to their records
C17_Witness ==
    /\ pc = "raised"
    /\ Len(place_names) = 3
    /\ yielded = {1}
    /\ DetailRaises(task[1].res)
    /\ task[2].res = "record"
    /\ task[3].res = "record"

\* the lookups that have been started
Started == { i \in Tasks : task[i].st # "queued" }

\* C18: at most MAX_WORKERS lookups run at a time, for any number of
\* identifiers; a lookup starts only when fewer than MAX_WORKERS are
\* running; place_details is called once for each started identifier,
\* never again, and once for every identifier by the time the pool is left.
C18_BoundedPool ==
    /\ [](Cardinality(Running) <= MAX_WORKERS)
    /\ [](nDetail = Cardinality(Started))
    /\ [](HydrateLeft => Started = 1 .. Len(place_names))
    /\ [][nDetail' # nDetail =>
             /\ nDetail' = nDetail + 1
             /\ Cardinality(Running) < MAX_WORKERS
             /\ Cardinality(Started') = Cardinality(Started) + 1]_vars

\* every worker is busy and an identifier waits
C18_Witness ==
    /\ pc = "hydrate"
    /\ Len(place_names) = MaxHydrate
    /\ Cardinality(Running) = MAX_WORKERS
    /\ \E i \in Tasks : task[i].st = "queued"

(***************************************************************************)
(* C19, C20.  What the search handler leaves behind.                       *)
(***************************************************************************)
\* C19: the results file is written in one step, after decomposition and
\* hydration have both returned, with every record of the hydration, and
\* the success payload with it; once an exception is on its way no file
\* is written and no payload returned, and a payload never comes with an
\* exception.
C19_SuccessOrError ==
    /\ [](file.written =>
             /\ pc = "responded"
             /\ response = [status |-> 200, kind |-> "data", total |-> Len(out)]
             /\ exc = NoExc
             /\ file.places = out
             /\ stack = << >>
             /\ yielded = Tasks
             /\ Len(task) = Len(place_names))
    /\ [](response.kind = "data" => file.written)
    /\ [](exc # NoExc => (~file.written /\ response = NoResponse))
    /\ [][file' # file => (pc = "hydrated" /\ pc' = "responded")]_vars

\* a search that saved and returned the one record it could fetch of two
\* identifiers
C19_Witness ==
    /\ pc = "responded"
    /\ file.written
    /\ Len(place_names) = 2
    /\ Len(file.places) = 1

\* C20: with count_only no lookup is submitted or started and no file is
\* written, and the answer is the number of identifiers the decomposition
\* returned; without a key (500) or with a city that strips to nothing
\* (400) the handler answers an error and no geocode, count, listing or
\* detail call is made.
C20_EarlyReturns ==
    /\ req.count_only =>
          /\ nDetail = 0
          /\ task = << >>
          /\ ~file.written
          /\ pc \notin {"hydrate", "unwind", "hydrated"}
    /\ response.kind = "count" =>
          /\ req.count_only
          /\ pc = "responded"
          /\ response.status = 200
          /\ response.total = Len(place_names)
          /\ response.total = Cardinality(listed)
          /\ stack = << >>
    /\ (~req.key \/ Strip(req.city) = << >>) =>
          /\ geo = "none"
          /\ nCount = 0
          /\ nList = 0
          /\ nDetail = 0
          /\ ~file.written
          /\ exc = NoExc
          /\ pc \in {"start", "responded"}
          /\ pc = "responded" =>
                response = [status |-> IF req.key THEN 400 ELSE 500,
                            kind |-> "error", total |-> 0]

\* a count_only search answered the number of identifiers it found
C20_Witness ==
    /\ pc = "responded"
    /\ req.count_only
    /\ response.kind = "count"
    /\ response.total = MaxPlace

=============================================================================
